---- MODULE Spec2Model ----
(***************************************************************************)
(* Model of src/app.py: a Telegram user-bot that buffers the text messages *)
(* of each chat, merges the ones that arrive within a merge window,        *)
(* translates the merged text to Japanese and sends it back as a reply.    *)
(*                                                                         *)
(* Everything runs on one asyncio event loop.  A coroutine runs without    *)
(* interruption between two awaits that really suspend, so each action     *)
(* below is one such uninterrupted stretch of handler or flush_chat:       *)
(*   handler         lines 131-138  (up to `await tg.get_me()`)            *)
(*   handler_resume  lines 139-152  (after get_me returned)                *)
(*   flush_chat      lines 93-122   (after the sleep, into the translate   *)
(*                                   call of line 72)                      *)
(*   translate_done  lines 76, 123-124 / 126-128                           *)
(*   send_done       lines 125 / 126-128                                   *)
(* translate_to_ja (lines 61-76) is declared async but awaits nothing: it  *)
(* calls the synchronous OpenAI client, so the event loop is blocked while *)
(* the request is outstanding and no other coroutine runs.                 *)
(*                                                                         *)
(* Time is a discrete clock `now` (time.time(), taken to be monotonic).    *)
(* Texts are sequences of characters over a small alphabet: "a", "b" stand *)
(* for characters outside the kana range, "k" for a character in the kana  *)
(* range U+3040-U+30FF, " " and "\n" are whitespace.                       *)
(***************************************************************************)
EXTENDS Integers, Sequences, FiniteSets

(***************************************************************************)
(* Bounds of the model.                                                    *)
(***************************************************************************)
\* Spec: events of every kind; number of events delivered to handler, and
\* number of clock ticks after start-up
MaxEvents == 2
MaxTicks == 2
\* SpecBurst: events of one kind (a burst in chat 1); the same two bounds
MaxBurst == 4
MaxBurstTicks == 3
\* SpecKana: longest text delivered, and number of events delivered
MaxKanaLen == 3
MaxKanaEvents == 1

(***************************************************************************)
(* Configuration (environment values, lines 20-34), in clock ticks.        *)
(***************************************************************************)
\* line 28; default 2.5 s.  One tick is about 1.2 s.
MIN_INTERVAL_PER_CHAT == 2
\* line 31; default 1.2 s
MERGE_WINDOW == 1
\* line 34; default 1500, scaled down so that merged texts exceed it
MAX_CHARS == 3
\* line 56: `kana >= 3`
KanaThreshold == 3

Chats == {1, 2}
\* me.id of line 139, and the id of some other user
ME == 0
PEER == 7
\* the values line 22 can give: None (variable unset or blank), a set of ids
\* ("1"), and the empty set (a value such as "," that holds no id)
AllowNone == [none |-> TRUE, ids |-> {}]
AllowConfigs == { AllowNone, [none |-> FALSE, ids |-> {1}], [none |-> FALSE, ids |-> {}] }
\* U+2026, one character (line 115)
Ellipsis == "..."
\* markup of line 81, each tag taken as one token
BqOpen == "<blockquote>"
BqClose == "</blockquote>"

\* event.raw_text of the events delivered to handler: a blank text, a text of
\* one character, a text in kana, and a text that holds the quotation markup
\* and whitespace to normalize
Blank == <<" ", "\n">>
Short == <<"a">>
Kana == <<"k", "k", "k">>
Quoted == <<" ", "a", "\n", " ", BqOpen>>

\* resp.output_text.strip() of line 76
Translations == { <<"k", "k", "k">> }

(***************************************************************************)
(* Helpers (lines 48-81).                                                  *)
(***************************************************************************)
\* \s of the regular expression of line 59
IsSpace(ch) == ch \in {" ", "\n"}

\* _kana_re of line 49
IsKana(ch) == ch = "k"

RECURSIVE SkipSpaces(_)
SkipSpaces(s) ==
    IF s # <<>> /\ IsSpace(Head(s)) THEN SkipSpaces(Tail(s)) ELSE s

\* re.sub(r"\s+", " ", text): every run of whitespace becomes one space
RECURSIVE Collapse(_)
Collapse(s) ==
    IF s = <<>> THEN <<>>
    ELSE IF IsSpace(Head(s)) THEN <<" ">> \o Collapse(SkipSpaces(s))
    ELSE <<Head(s)>> \o Collapse(Tail(s))

RECURSIVE RStrip(_)
RStrip(s) ==
    IF s # <<>> /\ IsSpace(s[Len(s)]) THEN RStrip(SubSeq(s, 1, Len(s) - 1)) ELSE s

\* str.strip()
Strip(s) == RStrip(SkipSpaces(s))

\* line 58-59
normalize_text(text) == Strip(Collapse(text))

RECURSIVE CountKana(_)
CountKana(s) ==
    IF s = <<>> THEN 0
    ELSE (IF IsKana(Head(s)) THEN 1 ELSE 0) + CountKana(Tail(s))

\* lines 78-81
format_blockquote(src, ja) == src \o <<"\n", BqOpen>> \o ja \o <<BqClose>>

\* "\n".join(texts) of line 108, texts being the items' texts
RECURSIVE Join(_)
Join(items) ==
    IF items = <<>> THEN <<>>
    ELSE IF Len(items) = 1 THEN items[1].text
    ELSE items[1].text \o <<"\n">> \o Join(Tail(items))

\* lines 106-109: the merged, normalized text of a batch
Merged(items) == normalize_text(Join(items))

\* a bug: the comparison of line 56 written with > for >=
looks_like_japanese_gt(text) ==
    IF text = <<>> THEN FALSE ELSE CountKana(text) > KanaThreshold

\* lines 51-56
looks_like_japanese(text) ==
    IF text = <<>> THEN FALSE ELSE CountKana(text) >= KanaThreshold

\* a bug: a text of exactly MAX_CHARS characters is cut as well
Cap_ge(merged) ==
    IF Len(merged) >= MAX_CHARS
    THEN SubSeq(merged, 1, MAX_CHARS) \o <<Ellipsis>>
    ELSE merged

\* lines 114-115
Cap(merged) ==
    IF Len(merged) > MAX_CHARS
    THEN SubSeq(merged, 1, MAX_CHARS) \o <<Ellipsis>>
    ELSE merged

(***************************************************************************)
(* State.                                                                  *)
(***************************************************************************)
VARIABLES
    now,             \* time.time()
    ALLOW_CHAT_IDS,  \* line 22: None or a set of chat ids
    IGNORE_SELF,     \* line 25
    buffers,         \* line 87: chat -> sequence of buffered items
    last_sent_at,    \* line 86: chat -> time of the last completed send
    timers,          \* chat -> wake-up times of the flush_chat tasks asleep at line 91
    awaiting_me,     \* event -> number of handler invocations suspended at line 138
    flushes,         \* chat -> the flush_chat tasks that took a batch (line 98), in order
    errors,          \* number of lines printed by line 128
    nDelivered,      \* number of handler invocations so far
    nPassed,         \* number of them that reached line 148
    nSelf            \* number of them that returned at line 140

vars == << now, ALLOW_CHAT_IDS, IGNORE_SELF, buffers, last_sent_at, timers,
           awaiting_me, flushes, errors, nDelivered, nPassed, nSelf >>

\* the stages of a flush_chat task that took a batch
\*   "deny"        returned at line 104
\*   "blank"       returned at line 111
\*   "ja"          returned at line 119
\*   "translating" inside the request of line 72
\*   "error"       translate_to_ja raised: lines 126-128
\*   "sending"     suspended in tg.send_message, line 124
\*   "sent"        line 125 done
\*   "send_failed" tg.send_message raised: lines 126-128
Outcomes ==
    {"deny", "blank", "ja", "translating", "error", "sending", "sent", "send_failed"}

\* the event loop is blocked inside the synchronous request of line 72
Blocked == \E c \in Chats : \E i \in 1..Len(flushes[c]) : flushes[c][i].outcome = "translating"

\* the items taken by the flush_chat tasks of chat c so far
Flushed(c) ==
    UNION { { flushes[c][j].items[i] : i \in 1..Len(flushes[c][j].items) } :
            j \in 1..Len(flushes[c]) }

\* the items admitted to chat c so far: those still buffered and those taken
Admitted(c) == { buffers[c][i] : i \in 1..Len(buffers[c]) } \cup Flushed(c)

\* the events the platform can deliver (events.NewMessage.Event, line 131):
\* messages of another user in chat 1 and in chat 2, and a message the own
\* account has sent
Ev(c, s, m, r) == [chat |-> c, sender |-> s, id |-> m, raw |-> r]
Events ==
    { Ev(1, PEER, 1, Short), Ev(1, PEER, 2, Quoted), Ev(1, PEER, 1, Kana),
      Ev(1, PEER, 2, Blank), Ev(2, PEER, 1, Short), Ev(1, ME, 2, Quoted) }

(***************************************************************************)
(* Initial state: the module-level code of lines 15-87 has run.  Line 86   *)
(* makes every last_sent_at 0.0 while time.time() counts from 1970, so the *)
(* clock starts at least MIN_INTERVAL_PER_CHAT after 0.                    *)
(***************************************************************************)
Init ==
    /\ now = MIN_INTERVAL_PER_CHAT
    /\ ALLOW_CHAT_IDS \in AllowConfigs
    /\ IGNORE_SELF \in BOOLEAN
    /\ buffers = [c \in Chats |-> <<>>]
    /\ last_sent_at = [c \in Chats |-> 0]
    /\ timers = [c \in Chats |-> <<>>]
    /\ awaiting_me = [e \in Events |-> 0]
    /\ flushes = [c \in Chats |-> <<>>]
    /\ errors = 0
    /\ nDelivered = 0
    /\ nPassed = 0
    /\ nSelf = 0

(***************************************************************************)
(* handler (lines 130-152).                                                *)
(***************************************************************************)
\* line 133, negated: the event's chat passes the white list
AllowedChat(chat) == ALLOW_CHAT_IDS.none \/ chat \in ALLOW_CHAT_IDS.ids

\* a bug: the chat, not the sender, is compared with me.id
IsSelf_chat(e) == e.chat = ME

\* line 139
IsSelf(e) == e.sender = ME

\* a variant: a message identifier already admitted to the chat is dropped
HasText_seen(e) ==
    normalize_text(e.raw) # <<>> /\ ~\E x \in Admitted(e.chat) : x.id = e.id

\* a variant: a normalized text of fewer than two characters is dropped too
HasText_min(e) == Len(normalize_text(e.raw)) >= 2

\* lines 143-146, negated: the event has text left after normalization
HasText(e) == normalize_text(e.raw) # <<>>

\* line 149: the tuple appended to the buffer.  seq (the ordinal of the
\* admission) and sender are not in the code's tuple: they only tell which
\* delivery the item comes from.
Item(e, t) ==
    [ts |-> t, text |-> normalize_text(e.raw), id |-> e.id,
     seq |-> nPassed + 1, sender |-> e.sender]

\* a variant: a task is started only when none of the chat is asleep
Schedule_once(tm, t) == IF tm = <<>> THEN <<t + MERGE_WINDOW>> ELSE tm

\* line 152 with line 91: one more flush_chat task, asleep until t + MERGE_WINDOW.
\* tm holds the wake-up times of the chat's sleeping tasks, earliest first.
Schedule(tm, t) == Append(tm, t + MERGE_WINDOW)

\* lines 143-152
handler_tail(e) ==
    /\ nPassed' = nPassed + (IF normalize_text(e.raw) # <<>> THEN 1 ELSE 0)
    /\ IF HasText(e)
       THEN /\ buffers' = [buffers EXCEPT ![e.chat] = Append(@, Item(e, now))]
            /\ timers' = [timers EXCEPT ![e.chat] = Schedule(@, now)]
       ELSE UNCHANGED << buffers, timers >>

\* lines 131-138: an event is delivered; with IGNORE_SELF the handler suspends
\* in tg.get_me()
handler(e) ==
    /\ ~Blocked
    /\ nDelivered' = nDelivered + 1
    /\ IF ~AllowedChat(e.chat)
       THEN UNCHANGED << buffers, timers, awaiting_me, nPassed >>
       ELSE IF IGNORE_SELF
       THEN /\ awaiting_me' = [awaiting_me EXCEPT ![e] = @ + 1]
            /\ UNCHANGED << buffers, timers, nPassed >>
       ELSE /\ handler_tail(e)
            /\ UNCHANGED awaiting_me
    /\ UNCHANGED << now, ALLOW_CHAT_IDS, IGNORE_SELF, last_sent_at, flushes, errors, nSelf >>

\* lines 138-152: tg.get_me() returned to a handler suspended on event e
handler_resume(e) ==
    /\ ~Blocked
    /\ awaiting_me[e] > 0
    /\ awaiting_me' = [awaiting_me EXCEPT ![e] = @ - 1]
    /\ IF IsSelf(e)
       THEN /\ nSelf' = nSelf + 1
            /\ UNCHANGED << buffers, timers, nPassed >>
       ELSE /\ handler_tail(e)
            /\ UNCHANGED nSelf
    /\ UNCHANGED << now, ALLOW_CHAT_IDS, IGNORE_SELF, last_sent_at, flushes, errors, nDelivered >>

(***************************************************************************)
(* flush_chat (lines 89-128).                                              *)
(***************************************************************************)
\* a bug: an attempt exactly MIN_INTERVAL_PER_CHAT after the last send is denied
RateDenied_le(c, t) == t - last_sent_at[c] <= MIN_INTERVAL_PER_CHAT

\* line 103
RateDenied(c, t) == t - last_sent_at[c] < MIN_INTERVAL_PER_CHAT

\* a bug: the first item of the batch is taken as the reply target
ReplyTo_first(items) == items[1].id

\* line 107
ReplyTo(items) == items[Len(items)].id

\* a bug: the snapshot of line 98 misses the oldest item, which line 99 clears
Taken_lost(c, items, t) ==
    LET kept == Tail(items)
        merged == Merged(kept)
        text == Cap(merged)
        outcome == IF RateDenied(c, t) THEN "deny"
                   ELSE IF merged = <<>> THEN "blank"
                   ELSE IF looks_like_japanese(text) THEN "ja"
                   ELSE "translating"
    IN  [at |-> t, items |-> kept, outcome |-> outcome,
         text |-> IF outcome = "translating" THEN text ELSE <<>>,
         msg |-> <<>>, reply_to |-> 0, issued |-> -1]

\* a bug: line 118 placed before the cut of lines 114-115
Taken_precap(c, items, t) ==
    LET merged == Merged(items)
        text == Cap(merged)
        outcome == IF RateDenied(c, t) THEN "deny"
                   ELSE IF merged = <<>> THEN "blank"
                   ELSE IF looks_like_japanese(merged) THEN "ja"
                   ELSE "translating"
    IN  [at |-> t, items |-> items, outcome |-> outcome,
         text |-> IF outcome = "translating" THEN text ELSE <<>>,
         msg |-> <<>>, reply_to |-> 0, issued |-> -1]

\* lines 98-122: the task took `items` at time t; where it returns, or that it
\* enters the translate request
Taken(c, items, t) ==
    LET merged == Merged(items)
        text == Cap(merged)
        outcome == IF RateDenied(c, t) THEN "deny"
                   ELSE IF merged = <<>> THEN "blank"
                   ELSE IF looks_like_japanese(text) THEN "ja"
                   ELSE "translating"
    IN  [at |-> t, items |-> items, outcome |-> outcome,
         text |-> IF outcome = "translating" THEN text ELSE <<>>,
         msg |-> <<>>, reply_to |-> 0, issued |-> -1]

\* lines 91-122: the earliest sleeping task of chat c wakes up
flush_chat(c) ==
    /\ ~Blocked
    /\ timers[c] # <<>>
    /\ Head(timers[c]) <= now
    /\ timers' = [timers EXCEPT ![c] = Tail(@)]
    /\ IF buffers[c] = <<>>
       THEN UNCHANGED << buffers, flushes >>
       ELSE /\ buffers' = [buffers EXCEPT ![c] = <<>>]
            /\ flushes' = [flushes EXCEPT ![c] = Append(@, Taken(c, buffers[c], now))]
    /\ UNCHANGED << now, ALLOW_CHAT_IDS, IGNORE_SELF, last_sent_at, awaiting_me,
                    errors, nDelivered, nPassed, nSelf >>

\* lines 123-124: the message handed to tg.send_message
Sending(f, ja, t) ==
    [f EXCEPT !.outcome = "sending", !.msg = format_blockquote(f.text, ja),
              !.reply_to = ReplyTo(f.items), !.issued = t]

\* a bug: no except clause, the exception ends the task
Caught_raise(f, outcome) == [f EXCEPT !.outcome = "raised"]

\* lines 126-128: the except clause
Caught(f, outcome) == [f EXCEPT !.outcome = outcome]

\* lines 72-76, 122-124, 126-128: the request of chat c's task returns r.ja, or raises
translate_done(c, r) ==
    LET i == Len(flushes[c]) IN
    /\ i > 0
    /\ flushes[c][i].outcome = "translating"
    /\ IF ~r.ok
       THEN /\ flushes' = [flushes EXCEPT ![c][i] = Caught(@, "error")]
            /\ errors' = errors + 1
       ELSE /\ flushes' = [flushes EXCEPT ![c][i] = Sending(@, r.ja, now)]
            /\ UNCHANGED errors
    /\ UNCHANGED << now, ALLOW_CHAT_IDS, IGNORE_SELF, buffers, last_sent_at, timers,
                    awaiting_me, nDelivered, nPassed, nSelf >>

\* line 125 reached
Sent(f) == [f EXCEPT !.outcome = "sent"]

\* a bug: a send that raises gives the interval back by resetting the time
AfterSend_reset(c, ok, t) == [last_sent_at EXCEPT ![c] = IF ok THEN t ELSE 0]

\* a bug: line 125 stamps every chat, not the task's own
AfterSend_all(c, ok, t) == [d \in Chats |-> IF ok THEN t ELSE last_sent_at[d]]

\* a bug: line 125 placed in a finally clause
AfterSend_always(c, ok, t) == [last_sent_at EXCEPT ![c] = t]

\* lines 124-128: last_sent_at once tg.send_message of chat c has returned
\* (ok) or raised, at time t
AfterSend(c, ok, t) ==
    IF ok THEN [last_sent_at EXCEPT ![c] = t] ELSE last_sent_at

\* lines 124-128: tg.send_message of the i-th task of chat c returns, or raises
send_done(c, i, ok) ==
    /\ ~Blocked
    /\ i \in 1..Len(flushes[c])
    /\ flushes[c][i].outcome = "sending"
    /\ last_sent_at' = AfterSend(c, ok, now)
    /\ IF ok
       THEN /\ flushes' = [flushes EXCEPT ![c][i] = Sent(@)]
            /\ UNCHANGED errors
       ELSE /\ flushes' = [flushes EXCEPT ![c][i] = Caught(@, "send_failed")]
            /\ errors' = errors + 1
    /\ UNCHANGED << now, ALLOW_CHAT_IDS, IGNORE_SELF, buffers, timers, awaiting_me,
                    nDelivered, nPassed, nSelf >>

\* time passes
Tick ==
    /\ now' = now + 1
    /\ UNCHANGED << ALLOW_CHAT_IDS, IGNORE_SELF, buffers, last_sent_at, timers,
                    awaiting_me, flushes, errors, nDelivered, nPassed, nSelf >>

\* what the request of line 72 can end with
Replies ==
    { [ok |-> TRUE, ja |-> t] : t \in Translations } \cup { [ok |-> FALSE, ja |-> <<>>] }


\* the events of a burst: text messages of another user in chat 1
BurstEvents == { Ev(1, PEER, 1, Short) }

\* the steps of the program other than the delivery of an event and the clock
Step ==
    \/ \E e \in Events : handler_resume(e)
    \/ \E c \in Chats : flush_chat(c)
    \/ \E c \in Chats : \E r \in Replies : translate_done(c, r)
    \/ \E c \in Chats : \E i \in 1..MaxBurst : \E ok \in BOOLEAN : send_done(c, i, ok)

Next ==
    \/ \E e \in Events : nDelivered < MaxEvents /\ handler(e)
    \/ now < MIN_INTERVAL_PER_CHAT + MaxTicks /\ Tick
    \/ Step

Spec == Init /\ [][Next]_vars

NextBurst ==
    \/ \E e \in BurstEvents : nDelivered < MaxBurst /\ handler(e)
    \/ now < MIN_INTERVAL_PER_CHAT + MaxBurstTicks /\ Tick
    \/ Step

\* the default configuration: every chat allowed, own messages ignored
InitBurst == Init /\ ALLOW_CHAT_IDS = AllowNone /\ IGNORE_SELF

SpecBurst == InitBurst /\ [][NextBurst]_vars

\* every text of at most MaxKanaLen characters, each in the kana range or not
KanaTexts == UNION { [1..n -> {"a", "k"}] : n \in 0..MaxKanaLen }

\* a message of another user in chat 1 with any of these texts
KanaEvents == { Ev(1, PEER, 1, t) : t \in KanaTexts }

\* every chat allowed, own messages not ignored: handler runs lines 131-152
\* without suspending
InitKana == Init /\ ALLOW_CHAT_IDS = AllowNone /\ ~IGNORE_SELF

NextKana ==
    \/ \E e \in KanaEvents : nDelivered < MaxKanaEvents /\ handler(e)
    \/ now < MIN_INTERVAL_PER_CHAT + MaxTicks /\ Tick
    \/ \E c \in Chats : flush_chat(c)
    \/ \E c \in Chats : \E r \in Replies : translate_done(c, r)
    \/ \E c \in Chats : \E i \in 1..MaxKanaEvents : \E ok \in BOOLEAN : send_done(c, i, ok)

SpecKana == InitKana /\ [][NextKana]_vars

\* the sleep of line 91 of some task is over
TimerDue == \E c \in Chats : timers[c] # <<>> /\ Head(timers[c]) <= now

\* time passes as the event loop lets it: a task whose sleep is over runs at
\* once, unless the loop is blocked inside the request of line 72
TickUrgent == (Blocked \/ ~TimerDue) /\ Tick

NextUrgent ==
    \/ \E e \in Events : nDelivered < MaxEvents /\ handler(e)
    \/ now < MIN_INTERVAL_PER_CHAT + MaxTicks /\ TickUrgent
    \/ Step

SpecUrgent == Init /\ [][NextUrgent]_vars

(***************************************************************************)
(* Properties.                                                             *)
(***************************************************************************)
\* the text holds the quotation markup the program writes into its own messages
HasTag(text) == \E i \in 1..Len(text) : text[i] \in {BqOpen, BqClose}

\* C1 as stated: of the deliveries of one event (same chat, same message
\* identifier, same text) at most one is admitted to the chat's buffer.
C1_AtMostOneAdmit ==
    \A c \in Chats : \A x, y \in Admitted(c) :
        (x.id = y.id /\ x.text = y.text /\ x.sender = y.sender) => x = y

\* C1 as amended: handler keeps no record of the identifiers it has seen, so
\* every delivery that reaches line 143 with text left after normalization is
\* admitted, repeated deliveries of one identifier included: the number of
\* such deliveries equals the number of items admitted.
C1_EveryDeliveryAdmitted ==
    /\ nPassed = Cardinality(UNION { Admitted(c) : c \in Chats })
    /\ \A c \in Chats : \A x, y \in Admitted(c) : x.seq = y.seq => x = y

\* two deliveries of one event, both admitted
C1_Witness ==
    \E c \in Chats : \E x, y \in Admitted(c) :
        x # y /\ x.id = y.id /\ x.text = y.text /\ x.sender = y.sender

\* C2 as stated: a text that holds the translation tag is never buffered and
\* never submitted to translate.
C2_TagNeverBuffered ==
    \A c \in Chats : \A x \in Admitted(c) : ~HasTag(x.text)

\* C2 as amended: handler does not look for a tag in the text; its loop guard
\* is the sender check of lines 137-140: with IGNORE_SELF set, no message
\* authored by the program's own account is ever buffered (or translated).
C2_SelfNeverBuffered ==
    IGNORE_SELF => \A c \in Chats : \A x \in Admitted(c) : x.sender # ME

\* with IGNORE_SELF set, a message of the own account holding the tag went
\* through handler and was dropped at line 140, and a message of another
\* user was admitted
C2_Witness ==
    /\ IGNORE_SELF
    /\ nSelf > 0
    /\ \A e \in Events : awaiting_me[e] = 0
    /\ \E c \in Chats : Admitted(c) # {}

\* C3 as stated: every item admitted less than one merge window after the
\* first item of a batch (which was admitted to an empty buffer) is part of
\* that batch, so that one flush takes the whole burst.
C3_BurstInOneFlush ==
    \A c \in Chats : \A j \in 1..Len(flushes[c]) : \A x \in Admitted(c) :
        LET first == flushes[c][j].items[1] IN
        (x.seq >= first.seq /\ x.ts < first.ts + MERGE_WINDOW)
            => \E i \in 1..Len(flushes[c][j].items) : flushes[c][j].items[i] = x

\* C4 as stated: a chat has at most one flush_chat task asleep at line 91.
C4_AtMostOneTimer == \A c \in Chats : Len(timers[c]) <= 1

\* C4 as amended: handler starts a flush_chat task for every admitted message,
\* whether or not one is already asleep, so a chat can have several
\* outstanding; in every reachable state a chat has at least as many sleeping
\* flush_chat tasks as items in its buffer.
C4_TimerPerItem == \A c \in Chats : Len(timers[c]) >= Len(buffers[c])

\* a second message was admitted while a task was asleep: two items, two tasks
C4_Witness == \E c \in Chats : Len(buffers[c]) = 2 /\ Len(timers[c]) = 2

\* C5 as stated: any two sends issued for one chat are at least
\* MIN_INTERVAL_PER_CHAT apart.
C5_SendsSpaced ==
    \A c \in Chats : \A i, j \in 1..Len(flushes[c]) :
        (i < j /\ flushes[c][i].issued >= 0 /\ flushes[c][j].issued >= 0)
            => flushes[c][j].issued - flushes[c][i].issued >= MIN_INTERVAL_PER_CHAT

\* C6 as stated, for two consecutive attempts of a chat of which the first
\* was sent: the second is denied when it comes less than
\* MIN_INTERVAL_PER_CHAT after the first, and is not denied when it comes at
\* least MIN_INTERVAL_PER_CHAT after it.
C6_SecondAttempt ==
    \A c \in Chats : \A i \in 1..Len(flushes[c]) - 1 :
        LET first == flushes[c][i]
            second == flushes[c][i + 1]
        IN  first.outcome = "sent" =>
                (second.outcome = "deny") <=> (second.at - first.at < MIN_INTERVAL_PER_CHAT)

\* C6 as amended: the limiter measures from the completion of the chat's
\* latest successful send, not from the earlier attempt.  An attempt that
\* follows an earlier attempt of the chat is denied exactly when now minus
\* last_sent_at (the time the latest successful send returned) is less than
\* MIN_INTERVAL_PER_CHAT, a denial leaves last_sent_at as it is, and
\* last_sent_at never decreases.
C6_DeniedByLastSend ==
    [][\A c \in Chats :
        /\ (Len(flushes[c]) > 0 /\ Len(flushes'[c]) = Len(flushes[c]) + 1) =>
            LET second == flushes'[c][Len(flushes'[c])] IN
            /\ (second.outcome = "deny") <=> (second.at - last_sent_at[c] < MIN_INTERVAL_PER_CHAT)
            /\ second.outcome = "deny" => last_sent_at'[c] = last_sent_at[c]
        /\ last_sent_at'[c] >= last_sent_at[c]
      ]_vars

\* after a first attempt that was sent, a second attempt was denied and a
\* third one, MIN_INTERVAL_PER_CHAT after the first send returned, was sent
C6_Witness ==
    \E c \in Chats :
        /\ Len(flushes[c]) >= 3
        /\ flushes[c][1].outcome = "sent"
        /\ flushes[c][2].outcome = "deny"
        /\ flushes[c][3].outcome = "sent"
        /\ last_sent_at[c] >= flushes[c][3].at

\* the request of line 72 of chat c's task ends in this step without a message
\* being handed to tg.send_message
TranslateFails(c) ==
    /\ Len(flushes[c]) > 0
    /\ flushes[c][Len(flushes[c])].outcome = "translating"
    /\ flushes'[c][Len(flushes[c])].outcome \notin {"translating", "sending"}

\* C7: when the translate request of a batch raises, the exception is caught
\* and printed (lines 126-128), no message is sent for the batch then or
\* later, buffers, timers and last_sent_at are as before, and the event loop
\* is free again for handler.
C7_TranslateErrorContained ==
    [][\A c \in Chats :
        /\ TranslateFails(c) =>
            /\ flushes'[c][Len(flushes[c])].outcome = "error"
            /\ flushes'[c][Len(flushes[c])].issued = -1
            /\ flushes'[c][Len(flushes[c])].msg = <<>>
            /\ errors' = errors + 1
            /\ last_sent_at' = last_sent_at
            /\ buffers' = buffers
            /\ timers' = timers
            /\ ~Blocked'
        /\ \A i \in 1..Len(flushes[c]) :
            flushes[c][i].outcome = "error" => flushes'[c][i] = flushes[c][i]
      ]_vars

\* a translate request raised, and a message delivered afterwards was admitted
C7_Witness ==
    \E c \in Chats : \E i \in 1..Len(flushes[c]) :
        /\ flushes[c][i].outcome = "error"
        /\ buffers[c] # <<>>
        /\ buffers[c][1].ts > flushes[c][i].at

\* C8: last_sent_at[c] changes only in the step in which a send of chat c
\* returns, and is then the time of that step; a translate request or a send
\* that raises leaves last_sent_at, the buffers and the sleeping tasks as they
\* are, and the failed batch is never touched again.
C8_StampOnlyAfterSend ==
    [][\A c \in Chats :
        /\ last_sent_at'[c] # last_sent_at[c] =>
            /\ last_sent_at'[c] = now
            /\ \E i \in 1..Len(flushes[c]) :
                flushes[c][i].outcome = "sending" /\ flushes'[c][i].outcome = "sent"
        /\ \A i \in 1..Len(flushes[c]) :
            /\ (flushes[c][i].outcome \in {"translating", "sending"}
                    /\ flushes'[c][i].outcome \notin {"translating", "sending", "sent"}) =>
                /\ last_sent_at' = last_sent_at
                /\ buffers' = buffers
                /\ timers' = timers
            /\ flushes[c][i].outcome \in {"error", "send_failed"} =>
                flushes'[c][i] = flushes[c][i]
      ]_vars

\* a send raised after an earlier send of the chat had succeeded, and
\* last_sent_at is still the time of the earlier one
C8_Witness ==
    \E c \in Chats : \E i, j \in 1..Len(flushes[c]) :
        /\ i < j
        /\ flushes[c][i].outcome = "sent"
        /\ flushes[c][j].outcome = "send_failed"
        /\ last_sent_at[c] < flushes[c][j].issued

\* C9: a task is denied only when now - last_sent_at is less than
\* MIN_INTERVAL_PER_CHAT; the denial leaves every last_sent_at as it is,
\* prints nothing and the buffer stays cleared; the denied batch is never
\* translated or sent, and its items are in no buffer and in no other batch.
C9_DenialDropsBatch ==
    [][\A c \in Chats :
        /\ Len(flushes'[c]) = Len(flushes[c]) + 1 =>
            LET g == flushes'[c][Len(flushes'[c])] IN
            g.outcome = "deny" =>
                /\ now - last_sent_at[c] < MIN_INTERVAL_PER_CHAT
                /\ last_sent_at' = last_sent_at
                /\ errors' = errors
                /\ buffers'[c] = <<>>
                /\ g.text = <<>> /\ g.msg = <<>> /\ g.issued = -1
        /\ \A i \in 1..Len(flushes[c]) :
            flushes[c][i].outcome = "deny" =>
                /\ flushes'[c][i] = flushes[c][i]
                /\ \A k \in 1..Len(flushes[c][i].items) :
                    /\ \A n \in 1..Len(buffers'[c]) : buffers'[c][n] # flushes[c][i].items[k]
                    /\ \A j \in 1..Len(flushes'[c]) : \A n \in 1..Len(flushes'[c][j].items) :
                        flushes'[c][j].items[n] = flushes[c][i].items[k] => j = i
      ]_vars

\* a batch of two items was denied, and a later batch of the chat was taken
C9_Witness ==
    \E c \in Chats : \E i, j \in 1..Len(flushes[c]) :
        i < j /\ flushes[c][i].outcome = "deny" /\ Len(flushes[c][i].items) = 2

\* the task handed a text to translate_to_ja
Requested(f) == f.outcome \in {"translating", "error", "sending", "sent", "send_failed"}

\* C10: the text handed to translate_to_ja is the merged text when that has at
\* most MAX_CHARS characters, and otherwise its first MAX_CHARS characters
\* followed by the ellipsis.
C10_TextCapped ==
    \A c \in Chats : \A i \in 1..Len(flushes[c]) :
        LET f == flushes[c][i]
            merged == Merged(f.items)
        IN  Requested(f) =>
                IF Len(merged) <= MAX_CHARS
                THEN f.text = merged
                ELSE /\ Len(f.text) = MAX_CHARS + 1
                     /\ \A k \in 1..MAX_CHARS : f.text[k] = merged[k]
                     /\ f.text[MAX_CHARS + 1] = Ellipsis

\* a request for a batch of two items whose merged text is longer than
\* MAX_CHARS: the text handed over ends with the ellipsis
C10_Witness ==
    \E c \in Chats : \E i \in 1..Len(flushes[c]) :
        LET f == flushes[c][i] IN
        /\ Requested(f)
        /\ Len(f.items) = 2
        /\ Len(Merged(f.items)) > MAX_CHARS
        /\ f.text[Len(f.text)] = Ellipsis

\* the number of characters of the text that are in the kana range
KanaCount(text) == Cardinality({ i \in 1..Len(text) : IsKana(text[i]) })

\* the text a task hands to looks_like_japanese at line 118
Classified(f) == Cap(Merged(f.items))

\* C11: looks_like_japanese is true of a text exactly when the text has at
\* least KanaThreshold characters in the kana range, for every text of at most
\* MaxKanaLen characters and for the text of every batch that reaches line 118:
\* the task returns at line 119 exactly in that case.
C11_KanaThreshold ==
    /\ \A t \in KanaTexts :
        looks_like_japanese(t) <=> (KanaCount(t) >= KanaThreshold)
    /\ \A c \in Chats : \A i \in 1..Len(flushes[c]) :
        LET f == flushes[c][i] IN
        f.outcome \notin {"deny", "blank"} =>
            ((f.outcome = "ja") <=> (KanaCount(Classified(f)) >= KanaThreshold))

\* a batch whose text has exactly KanaThreshold kana characters returned at
\* line 119, and a text with one kana character less is not classified so
C11_Witness ==
    /\ \E c \in Chats : \E i \in 1..Len(flushes[c]) :
        /\ flushes[c][i].outcome = "ja"
        /\ KanaCount(Classified(flushes[c][i])) = KanaThreshold
    /\ \E t \in KanaTexts :
        KanaCount(t) = KanaThreshold - 1 /\ ~looks_like_japanese(t)

\* C12 as stated: while the allow-set holds some id, nothing is ever buffered,
\* scheduled, suspended, translated or sent for a chat outside it; and while
\* the allow-set holds no id, every delivered event passes the check of line
\* 133 (seen where IGNORE_SELF makes the handler suspend at line 138 next).
C12_AllowSet ==
    [][/\ ALLOW_CHAT_IDS.ids # {} =>
            \A c \in Chats \ ALLOW_CHAT_IDS.ids :
                /\ buffers'[c] = <<>> /\ timers'[c] = <<>> /\ flushes'[c] = <<>>
                /\ \A e \in Events : e.chat = c => awaiting_me'[e] = 0
       /\ (ALLOW_CHAT_IDS.ids = {} /\ IGNORE_SELF /\ nDelivered' = nDelivered + 1) =>
            awaiting_me' # awaiting_me
      ]_vars

\* C13 as stated: no item with a normalized text of fewer than two characters
\* is ever admitted to a buffer.
C13_ShortNeverBuffered ==
    \A c \in Chats : \A x \in Admitted(c) : Len(x.text) >= 2

\* C13 as amended: handler has no minimum length; it drops a message exactly
\* when the normalized text is empty.  A step that appends to a buffer appends
\* one item with a non-empty text and starts one flush_chat task, and every
\* handler that reaches line 143 with a non-empty normalized text, one
\* character included, appends.
C13_OnlyEmptyDropped ==
    [][/\ \A c \in Chats :
            Len(buffers'[c]) > Len(buffers[c]) =>
                /\ Len(buffers'[c]) = Len(buffers[c]) + 1
                /\ buffers'[c][Len(buffers'[c])].text # <<>>
                /\ Len(timers'[c]) = Len(timers[c]) + 1
                /\ nPassed' = nPassed + 1
       /\ nPassed' = nPassed + 1 =>
            \E c \in Chats : Len(buffers'[c]) = Len(buffers[c]) + 1
      ]_vars

\* with every chat allowed and own messages not ignored, two events were
\* delivered: one was dropped (its text was blank), and one with a text of a
\* single character was admitted
C13_Witness ==
    /\ ALLOW_CHAT_IDS.none /\ ~IGNORE_SELF
    /\ nDelivered = 2 /\ nPassed = 1
    /\ \E c \in Chats : \E x \in Admitted(c) : Len(x.text) = 1

\* the task is past the check of line 103 and its translate request or its
\* send has not finished
InFlight(f) == f.outcome \in {"translating", "sending"}

\* C14 as stated: when a task of a chat takes a batch (and makes the check of
\* line 103), no earlier batch of the chat is still being translated or sent,
\* and at no time are two batches of one chat both in that stage.
C14_NoOverlap ==
    [][\A c \in Chats :
        /\ Len(flushes'[c]) = Len(flushes[c]) + 1 =>
            \A i \in 1..Len(flushes[c]) : ~InFlight(flushes[c][i])
        /\ \A i, j \in 1..Len(flushes'[c]) :
            i < j => ~(InFlight(flushes'[c][i]) /\ InFlight(flushes'[c][j]))
      ]_vars

\* C15 as stated: an item is in its chat's buffer for at most MERGE_WINDOW
\* after it was admitted, and the wake-up times of the tasks already asleep
\* are not changed by later arrivals.
C15_FlushedWithinWindow ==
    [][\A c \in Chats :
        /\ \A n \in 1..Len(buffers'[c]) : now' <= buffers'[c][n].ts + MERGE_WINDOW
        /\ Len(timers'[c]) >= Len(timers[c]) =>
            SubSeq(timers'[c], 1, Len(timers[c])) = timers[c]
      ]_vars

\* b is a with one item appended
Appended(a, b) == Len(b) = Len(a) + 1 /\ SubSeq(b, 1, Len(a)) = a

\* the items of a sequence are in the order of their admission
Ordered(items) ==
    \A n \in 1..Len(items) - 1 : items[n].seq < items[n + 1].seq

\* every item of the first sequence was admitted before every item of the
\* second (both Ordered)
Before(a, b) == a = <<>> \/ b = <<>> \/ a[Len(a)].seq < b[1].seq

\* C16: lines 93-99 run without suspending.  A task that finds the buffer
\* non-empty takes exactly the buffer's content, in order, and leaves the
\* buffer empty; no admitted item is lost (a buffer changes only by an append
\* or by being taken, a batch never changes); every admitted item is at one
\* place only (the buffer or one batch), and batches and buffer follow the
\* order of admission; a task that finds the buffer empty changes nothing
\* but itself.
C16_SnapshotClearAtomic ==
    [][\A c \in Chats :
        /\ Len(flushes'[c]) = Len(flushes[c]) + 1 =>
            /\ flushes'[c][Len(flushes'[c])].items = buffers[c]
            /\ buffers[c] # <<>>
            /\ buffers'[c] = <<>>
        /\ \/ buffers'[c] = buffers[c]
           \/ Appended(buffers[c], buffers'[c])
           \/ buffers'[c] = <<>> /\ Len(flushes'[c]) = Len(flushes[c]) + 1
        /\ Len(flushes'[c]) >= Len(flushes[c])
        /\ \A j \in 1..Len(flushes[c]) : flushes'[c][j].items = flushes[c][j].items
        /\ Ordered(buffers'[c])
        /\ \A j \in 1..Len(flushes'[c]) :
            /\ Ordered(flushes'[c][j].items)
            /\ Before(flushes'[c][j].items, buffers'[c])
            /\ j > 1 => Before(flushes'[c][j - 1].items, flushes'[c][j].items)
            /\ flushes'[c][j].items # <<>>
        /\ (Len(timers'[c]) < Len(timers[c]) /\ buffers[c] = <<>>) =>
            /\ buffers' = buffers /\ flushes' = flushes
            /\ last_sent_at' = last_sent_at /\ errors' = errors
      ]_vars

\* a task of the chat found the buffer empty (more tasks have woken than
\* batches were taken), after a batch of two items and before a later batch
C16_Witness ==
    \E c \in Chats :
        /\ Len(flushes[c]) >= 2
        /\ Len(flushes[c][1].items) = 2
        /\ Cardinality(Admitted(c)) - Len(timers[c]) > Len(flushes[c])

\* C17 as stated: no item whose text looks_like_japanese is ever admitted to
\* a buffer.
C17_KanaNeverBuffered ==
    \A c \in Chats : \A x \in Admitted(c) : ~looks_like_japanese(x.text)

\* C17 as amended: handler does not apply the kana heuristic; flush_chat
\* applies it once, to the merged and cut text of the batch.  A batch that
\* passes lines 103 and 110 returns at line 119 exactly when that text
\* looks_like_japanese, and is then neither translated nor sent; otherwise
\* the text, kana items included, is handed to translate_to_ja.
C17_KanaCheckedAtFlush ==
    \A c \in Chats : \A i \in 1..Len(flushes[c]) :
        LET f == flushes[c][i] IN
        /\ f.outcome \notin {"deny", "blank"} =>
            ((f.outcome = "ja") <=> looks_like_japanese(Classified(f)))
        /\ f.outcome = "ja" => (f.text = <<>> /\ f.msg = <<>> /\ f.issued = -1)
        /\ Requested(f) => f.text = Classified(f)

\* a message in kana was buffered and merged with another message of the
\* chat, and the merged text was handed to translate_to_ja
C17_Witness ==
    \E c \in Chats : \E i \in 1..Len(flushes[c]) :
        LET f == flushes[c][i] IN
        /\ Len(f.items) = 2
        /\ \E k \in 1..2 : looks_like_japanese(f.items[k].text)
        /\ Requested(f)

\* C18 as stated: whenever the translate request or the send of a batch is
\* outstanding, handler can run on a delivered event.
C18_HandlerNeverBlocked ==
    (\E c \in Chats : \E i \in 1..Len(flushes[c]) : InFlight(flushes[c][i]))
        => ENABLED (\E e \in Events : handler(e))

\* tg.send_message was called for the batch
Issued(f) == f.outcome \in {"sending", "sent", "send_failed"}

\* C19: the message handed to tg.send_message for a batch of chat c replies
\* to the message id of the batch's last item, and its text is the merged,
\* normalized and cut text of the batch, a line break, and the translation
\* inside the blockquote markup; for a batch that was not sent no message
\* was built.  (The chat of the send is the task's own chat_id: the batches
\* are kept per chat.)
C19_ReplyPayload ==
    \A c \in Chats : \A i \in 1..Len(flushes[c]) :
        LET f == flushes[c][i] IN
        IF Issued(f)
        THEN /\ f.reply_to = f.items[Len(f.items)].id
             /\ \E ja \in Translations :
                    f.msg = Classified(f) \o <<"\n", BqOpen>> \o ja \o <<BqClose>>
             /\ f.issued >= f.at
        ELSE f.msg = <<>> /\ f.issued = -1

\* a batch of two messages with different ids was sent
C19_Witness ==
    \E c \in Chats : \E i \in 1..Len(flushes[c]) :
        LET f == flushes[c][i] IN
        /\ f.outcome = "sent"
        /\ Len(f.items) = 2
        /\ f.items[1].id # f.items[2].id
        /\ f.reply_to = f.items[2].id

\* C20: a step of handler (an event delivered, or tg.get_me() returned)
\* leaves last_sent_at and the batches alone and changes at most one buffer,
\* by appending one item, the buffer of the event's chat; a step that clears
\* the buffer of chat c (its flush_chat task) leaves every other buffer and
\* last_sent_at alone; a step that writes last_sent_at[c] (a send of chat c
\* returned) leaves the last_sent_at of every other chat and all buffers alone.
C20_Ownership ==
    [][/\ (nDelivered' # nDelivered \/ awaiting_me' # awaiting_me) =>
            /\ last_sent_at' = last_sent_at
            /\ flushes' = flushes
            /\ \A c \in Chats :
                /\ buffers'[c] = buffers[c] \/ Appended(buffers[c], buffers'[c])
                /\ buffers'[c] # buffers[c] =>
                    /\ \A d \in Chats \ {c} : buffers'[d] = buffers[d]
                    /\ \A e \in Events :
                        awaiting_me'[e] < awaiting_me[e] => e.chat = c
       /\ \A c \in Chats :
            /\ Len(buffers'[c]) < Len(buffers[c]) =>
                /\ buffers'[c] = <<>>
                /\ \A d \in Chats \ {c} :
                    buffers'[d] = buffers[d] /\ flushes'[d] = flushes[d]
                /\ last_sent_at' = last_sent_at
            /\ last_sent_at'[c] # last_sent_at[c] =>
                /\ \A d \in Chats \ {c} :
                    last_sent_at'[d] = last_sent_at[d] /\ flushes'[d] = flushes[d]
                /\ buffers' = buffers
                /\ \E i \in 1..Len(flushes[c]) :
                    flushes[c][i].outcome = "sending" /\ flushes'[c][i].outcome = "sent"
      ]_vars

\* a send of chat 1 has returned while chat 2, with an item in its buffer,
\* still has its initial last_sent_at
C20_Witness ==
    /\ last_sent_at[1] > 0
    /\ last_sent_at[2] = 0
    /\ buffers[2] # <<>>

====
